---- MODULE Spec2Model ----
(***************************************************************************)
(* A model of jira-activity-summary.py: the paginated search client        *)
(* (jira_search), the working-week calculator (calculate_working_weeks),   *)
(* the story-point aggregator (sum_story_points) and the sequential        *)
(* control flow of main().                                                 *)
(*                                                                         *)
(* The specifications share the variables:                                 *)
(*   Spec       one call of jira_search made directly by a caller;         *)
(*   FairSpec   Spec with weak fairness of the page-fetch loop;            *)
(*   MainSpec   main(): check_auth, calculate_working_weeks, three         *)
(*              searches, the report sections;                             *)
(*   WeeksSpec  calculate_working_weeks applied to drawn arguments;        *)
(*   SumSpec    sum_story_points applied to drawn issue lists.             *)
(***************************************************************************)
EXTENDS Integers, Sequences, FiniteSets, TLC

VARIABLES
    pc,               \* position of the caller / of main()
    spc,              \* position inside jira_search
    config,           \* the Config dataclass
    svc,              \* the search service: how many issues match, and its habits
    args,             \* jira_search's arguments: jql, fields, max_results
    url_fields,       \* the local `fields` after the None default
    all_issues,       \* jira_search local
    next_page_token,  \* jira_search local
    iteration,        \* jira_search local
    requests,         \* history: the params of every requests.get of the call
    responses,        \* history: every response of the call
    progress,         \* the last progress message logged
    warned,           \* whether the iteration-limit warning was logged
    retval,           \* the list jira_search returned
    exitCode,         \* the process's exit code, NoExit while it runs
    weeks,            \* main's result of calculate_working_weeks
    created_issues,   \* main local
    resolved_issues,  \* main local
    bug_issues,       \* main local
    report,           \* the report sections logged so far
    fnArgs,           \* arguments of the pure function under check
    fnResult          \* its outcome

vars == <<pc, spc, config, svc, args, url_fields, all_issues, next_page_token,
          iteration, requests, responses, progress, warned, retval, exitCode,
          weeks, created_issues, resolved_issues, bug_issues, report,
          fnArgs, fnResult>>

searchVars == <<spc, svc, args, url_fields, all_issues, next_page_token,
                iteration, requests, responses, progress, warned, retval>>

mainVars == <<weeks, created_issues, resolved_issues, bug_issues, report>>

fnVars == <<fnArgs, fnResult>>

(***************************************************************************)
(* Bounds of the model.                                                    *)
(***************************************************************************)
\* The service holds up to max_iterations + Extra issues for a query.
Extra == 2
\* The caller of jira_search asks for pages of 1..MaxPageSize issues.
MaxPageSize == 2

(***************************************************************************)
(* Program constants.                                                      *)
(***************************************************************************)
max_iterations == 100
DefaultMaxResults == 100
HTTP_OK == 200
HTTP_ERROR == 500

\* The process is still running.
NoExit == -1

(***************************************************************************)
(* Values of the search protocol.                                          *)
(* A continuation token is an opaque string. The model writes the absent   *)
(* token (Python None) as TokenNone, the empty string as TokenEmpty and    *)
(* the cursor that resumes after `offset` issues as offset + 1.            *)
(***************************************************************************)
TokenNone == -1
TokenEmpty == 0
Cursor(offset) == offset + 1
OffsetOf(token) == IF token >= 1 THEN token - 1 ELSE 0

\* The response carries no "total".
TotalAbsent == -1

\* fields=None
FieldsNone == [given |-> FALSE, names |-> <<>>]
FieldsOf(names) == [given |-> TRUE, names |-> names]

DefaultFields == <<"summary", "status", "issuetype", "created", "resolved">>
ResolvedFields == <<"summary", "status", "issuetype", "resolved", "customfield_10014">>

JqlCreated == "reporter = currentUser() AND created in range"
JqlResolved == "assignee = currentUser() AND resolved in range"
JqlBugs == "assignee = currentUser() AND type = Bug AND resolved in range"

Min(a, b) == IF a < b THEN a ELSE b
Max(a, b) == IF a > b THEN a ELSE b

(***************************************************************************)
(* The issues the service holds.  A story-point value is written by its    *)
(* JSON kind and its text: 3 is ("int", "3"), "5" is ("str", "5"), 2.5 is  *)
(* ("float", "2.5"); null, a list and an absent key have no text.          *)
(***************************************************************************)
SP(kind, text) == [kind |-> kind, text |-> text]
SPAbsent == SP("absent", <<>>)
SPNull == SP("null", <<>>)
SPList == SP("list", <<>>)
SPInt3 == SP("int", <<"3">>)
SPStr5 == SP("str", <<"5">>)
SPBad == SP("str", <<"b", "a", "d">>)
SPFloat25 == SP("float", <<"2", ".", "5">>)

\* The story points of the service's issues, by position in the result set.
SPCycle == <<SPInt3, SPStr5, SPNull, SPBad, SPFloat25, SPAbsent>>
TypeCycle == <<"Bug", "Story", "Task">>

Cyc(seq, i) == seq[((i - 1) % Len(seq)) + 1]

\* ",".join(fields)
RECURSIVE Join(_)
Join(names) ==
    IF Len(names) = 0 THEN <<>>
    ELSE IF Len(names) = 1 THEN names
    ELSE <<Head(names), ",">> \o Join(Tail(names))

InSeq(x, seq) == \E k \in 1..Len(seq) : seq[k] = x

\* The i-th issue matching query jql, with the requested fields only.
Issue(jql, fields, i) ==
    [key |-> i,
     issuetype |-> IF jql = JqlBugs THEN "Bug" ELSE Cyc(TypeCycle, i),
     customfield_10014 |->
         IF InSeq("customfield_10014", fields) THEN Cyc(SPCycle, i) ELSE SPAbsent]

(***************************************************************************)
(* The search endpoint.  It holds `total` issues for the query and is      *)
(* stateless: the token of the request says where the page starts.  A      *)
(* response is any envelope {status, issues, nextPageToken, total}: the    *)
(* page may be the next slice or empty, the token absent, empty or the     *)
(* cursor after the page, the total absent or given, the status 200 or     *)
(* not.  An envelope without "issues" reads as one with an empty page      *)
(* (data.get("issues", [])); "total" is an integer when present.           *)
(***************************************************************************)
Slice(service, params) ==
    LET o == OffsetOf(params.nextPageToken)
        n == Min(params.maxResults, Max(service.total - o, 0))
    IN  [k \in 1..n |-> Issue(params.jql, params.fields, o + k)]

\* The "total" of the envelope: this service sends it or never does.
TotalField(service) == IF service.sendsTotal THEN service.total ELSE TotalAbsent

ServiceResponses(service, params) ==
    LET o == OffsetOf(params.nextPageToken)
        page == Slice(service, params)
    IN  {[status |-> HTTP_ERROR, issues |-> <<>>,
          nextPageToken |-> TokenNone, total |-> TotalAbsent]}
        \cup
        {[status |-> HTTP_OK, issues |-> is, nextPageToken |-> t,
          total |-> TotalField(service)] :
            is \in {page, <<>>},
            t \in {TokenNone, TokenEmpty, Cursor(o + Len(page))}}

\* What a well-behaved service answers: the next slice, and a token exactly
\* when issues remain after it.
HonestResponse(service, params, response) ==
    LET o == OffsetOf(params.nextPageToken)
        page == Slice(service, params)
    IN  /\ response.status = HTTP_OK
        /\ response.issues = page
        /\ response.nextPageToken =
               IF o + Len(page) < service.total
               THEN Cursor(o + Len(page)) ELSE TokenNone

(***************************************************************************)
(* jira_search                                                             *)
(***************************************************************************)
\* Python truthiness of a token: None and "" are false.
Truthy(token) == token # TokenNone /\ token # TokenEmpty

\* fields defaults when None
FieldsDefault(fields) == IF fields.given THEN fields.names ELSE DefaultFields

\* Mutant of LoopGuard: the limit is off by one.
LoopGuardOffByOne(i) == i <= max_iterations

\* while iteration < max_iterations
LoopGuard(i) == i < max_iterations

\* Mutant of ParamsToken: the token is never sent.
ParamsTokenDropped(token) == TokenNone

\* if next_page_token: params["nextPageToken"] = next_page_token
ParamsToken(token) == IF Truthy(token) THEN token ELSE TokenNone

\* Mutant of StatusOk: the status is not checked.
StatusOkUnchecked(status) == TRUE

\* response.status_code != 200 leads to sys.exit(1)
StatusOk(status) == status = HTTP_OK

\* Mutant of Extend: the page is put before the issues collected so far.
ExtendInFront(all, issues) == issues \o all

\* all_issues.extend(issues)
Extend(all, issues) == all \o issues

\* total = data.get("total", len(all_issues))
TotalOf(response, all) ==
    IF response.total = TotalAbsent THEN Len(all) ELSE response.total

\* the progress message: with the total when it is positive
ProgressMsg(fetched, total) ==
    IF total > 0 THEN [fetched |-> fetched, total |-> total, done |-> FALSE]
    ELSE [fetched |-> fetched, total |-> TotalAbsent, done |-> FALSE]

DoneMsg(fetched) == [fetched |-> fetched, total |-> TotalAbsent, done |-> TRUE]
NoMsg == [fetched |-> 0, total |-> TotalAbsent, done |-> FALSE]

\* Mutant of StopOnEmpty: an empty page does not end the loop.
StopOnEmptyMissing(issues) == FALSE

\* if len(issues) == 0: break
StopOnEmpty(issues) == Len(issues) = 0

\* Mutant of StopOnNoToken: a missing token does not end the loop.
StopOnNoTokenMissing(token) == FALSE

\* if not next_page_token: break
StopOnNoToken(token) == ~Truthy(token)

\* Mutant of CapReached: the warning's test is off by one.
CapReachedOffByOne(i) == i > max_iterations

\* if iteration >= max_iterations: logger.warning(...)
CapReached(i) == i >= max_iterations

\* One iteration of the while loop: the request, the status check, the
\* accumulation, the progress message and the three ways out.
Iterate ==
    /\ spc = "loop"
    /\ LoopGuard(iteration)
    /\ LET params == [jql |-> args.jql,
                      maxResults |-> args.max_results,
                      fields |-> Join(url_fields),
                      nextPageToken |-> ParamsToken(next_page_token)]
       IN  \E response \in ServiceResponses(svc, params) :
            /\ requests' = Append(requests, params)
            /\ responses' = Append(responses, response)
            /\ IF ~StatusOk(response.status)
               THEN /\ spc' = "exited"
                    /\ pc' = "exit"
                    /\ exitCode' = 1
                    /\ UNCHANGED <<all_issues, next_page_token, iteration, progress>>
               ELSE LET issues == response.issues
                        all == Extend(all_issues, issues)
                        token == response.nextPageToken
                    IN  /\ all_issues' = all
                        /\ next_page_token' = token
                        /\ progress' = ProgressMsg(Len(all), TotalOf(response, all))
                        /\ IF StopOnEmpty(issues) \/ StopOnNoToken(token)
                           THEN /\ spc' = "after"
                                /\ UNCHANGED iteration
                           ELSE /\ spc' = "loop"
                                /\ iteration' = iteration + 1
                        /\ UNCHANGED <<pc, exitCode>>
    /\ UNCHANGED <<config, svc, args, url_fields, warned, retval>>
    /\ UNCHANGED mainVars
    /\ UNCHANGED fnVars

\* After the loop: the warning at the iteration limit, the closing message,
\* the return.
Finish ==
    /\ \/ spc = "after"
       \/ spc = "loop" /\ ~LoopGuard(iteration)
    /\ warned' = CapReached(iteration)
    /\ progress' = DoneMsg(Len(all_issues))
    /\ retval' = all_issues
    /\ spc' = "returned"
    /\ UNCHANGED <<pc, config, svc, args, url_fields, all_issues, next_page_token,
                   iteration, requests, responses, exitCode>>
    /\ UNCHANGED mainVars
    /\ UNCHANGED fnVars

(***************************************************************************)
(* Idle values of the parts a specification does not use.                  *)
(***************************************************************************)
NoConfig ==
    [atlassian_user |-> "", atlassian_token |-> "",
     start_date |-> <<0, 0, 0>>, end_date |-> <<0, 0, 0>>, pto_days |-> 0]
NoService == [total |-> 0, sendsTotal |-> FALSE]
NoArgs == [jql |-> "", fields |-> FieldsNone, max_results |-> 0]
NoWeeks == [raised |-> FALSE, total_days |-> 0, total_weeks |-> <<0, 1>>,
            working_days |-> 0, working_weeks |-> <<0, 1>>]

MainIdle ==
    /\ weeks = NoWeeks
    /\ created_issues = <<>>
    /\ resolved_issues = <<>>
    /\ bug_issues = <<>>
    /\ report = <<>>

FnIdle ==
    /\ fnArgs = <<>>
    /\ fnResult = <<>>

(***************************************************************************)
(* Spec: one call jira_search(config, jql, fields, max_results).  Init is  *)
(* the state on entering the loop, lines 137-148 done.                     *)
(***************************************************************************)
\* How many issues the service may hold: few, or about as many as the
\* iteration limit lets one call fetch with pages of one issue.
Totals == (0 .. Extra) \cup ((max_iterations - 1) .. (max_iterations + Extra))

Services == [total : Totals, sendsTotal : BOOLEAN]

CallArgs ==
    {[jql |-> JqlCreated, fields |-> FieldsNone, max_results |-> n] :
        n \in 1..MaxPageSize}
    \cup
    {[jql |-> JqlResolved, fields |-> FieldsOf(ResolvedFields), max_results |-> n] :
        n \in 1..MaxPageSize}

Init ==
    /\ pc = "caller"
    /\ spc = "loop"
    /\ config = NoConfig
    /\ svc \in Services
    /\ args \in CallArgs
    /\ url_fields = FieldsDefault(args.fields)
    /\ all_issues = <<>>
    /\ next_page_token = TokenNone
    /\ iteration = 0
    /\ requests = <<>>
    /\ responses = <<>>
    /\ progress = NoMsg
    /\ warned = FALSE
    /\ retval = <<>>
    /\ exitCode = NoExit
    /\ MainIdle
    /\ FnIdle

Next ==
    \/ Iterate
    \/ Finish

Spec == Init /\ [][Next]_vars

\* The loop runs to its end: nothing else is scheduled, and each request
\* returns (it has a timeout).
FairSpec == Init /\ [][Next]_vars /\ WF_vars(Next)

(***************************************************************************)
(* Properties of jira_search.                                              *)
(***************************************************************************)
RECURSIVE Flatten(_)
Flatten(pages) ==
    IF Len(pages) = 0 THEN <<>> ELSE Head(pages) \o Flatten(Tail(pages))

RECURSIVE SumSizes(_)
SumSizes(pages) ==
    IF Len(pages) = 0 THEN 0 ELSE Len(Head(pages)) + SumSizes(Tail(pages))

\* The issue lists of the pages fetched by the call, in the order fetched.
PagesFetched == [k \in 1..Len(responses) |-> responses[k].issues]

\* Every issue the service holds for the query of the call, in order.
ServiceIssues ==
    [i \in 1..svc.total |-> Issue(args.jql, Join(FieldsDefault(args.fields)), i)]

AllHonest ==
    \A k \in 1..Len(responses) : HonestResponse(svc, requests[k], responses[k])

Returned == spc = "returned"
Ended == spc \in {"after", "returned", "exited"}
LastResponse == responses[Len(responses)]
LastOk == Len(responses) > 0 /\ LastResponse.status = HTTP_OK

\* The state the iteration limit ends: max_iterations pages fetched, the
\* last one non-empty and with a token like all before it.
AtCap ==
    /\ Len(responses) = max_iterations
    /\ LastOk
    /\ Len(LastResponse.issues) > 0
    /\ Truthy(LastResponse.nextPageToken)

C2_NoTokenEndsTheCall ==
    /\ \A k \in 1..(Len(responses) - 1) : responses[k].nextPageToken # TokenNone
    /\ (LastOk /\ LastResponse.nextPageToken = TokenNone) =>
           /\ spc \in {"after", "returned"}
           /\ Returned => retval = Flatten(PagesFetched)

C2_Witness ==
    /\ Returned
    /\ Len(responses) >= 2
    /\ LastResponse.nextPageToken = TokenNone
    /\ Len(LastResponse.issues) > 0
    /\ LastResponse.total > Len(retval)

\* C3: at the iteration limit jira_search neither fails nor exits; it logs
\* the warning and returns exactly the issues of the pages fetched, in order.
C3_CapReturnsPartial ==
    AtCap =>
        /\ spc \in {"loop", "returned"}
        /\ exitCode = NoExit
        /\ Returned => (warned /\ retval = Flatten(PagesFetched))

C3_Witness ==
    /\ AtCap
    /\ Returned
    /\ warned
    /\ Len(retval) = max_iterations * args.max_results
    /\ Len(retval) < svc.total

\* C4: a call issues at most max_iterations requests and ends; the loop is
\* left for one of four reasons: a non-success status, an empty page, a
\* missing token, the iteration limit.
C4_Terminates ==
    /\ [](Len(requests) <= max_iterations)
    /\ [](Ended =>
            \/ ~LastOk
            \/ Len(LastResponse.issues) = 0
            \/ ~Truthy(LastResponse.nextPageToken)
            \/ AtCap)
    /\ <>(spc \in {"returned", "exited"})

C4_Witness ==
    /\ Returned
    /\ Len(requests) = max_iterations
    /\ Truthy(LastResponse.nextPageToken)

\* C5: an empty page of a 200 response is the last response of the call,
\* with or without a token; the process does not exit, and when the first
\* page is empty the call returns the empty list.
C5_EmptyPageEndsTheCall ==
    /\ \A k \in 1..(Len(responses) - 1) : Len(responses[k].issues) > 0
    /\ (LastOk /\ Len(LastResponse.issues) = 0) =>
           /\ spc \in {"after", "returned"}
           /\ exitCode = NoExit
           /\ (Returned /\ Len(responses) = 1) => retval = <<>>

C5_Witness ==
    /\ Returned
    /\ Len(responses) = 1
    /\ LastOk
    /\ Len(LastResponse.issues) = 0
    /\ Truthy(LastResponse.nextPageToken)
    /\ svc.total > 0
    /\ retval = <<>>
    /\ exitCode = NoExit

\* C10: the first request of a call carries no token; every later request
\* carries the token of the response just before it; the query, the field
\* list and the page size are those of the call on every request.
C10_TokenChain ==
    \A k \in 1..Len(requests) :
        /\ k = 1 => requests[k].nextPageToken = TokenNone
        /\ k > 1 => /\ requests[k].nextPageToken = responses[k - 1].nextPageToken
                    /\ Truthy(requests[k].nextPageToken)
        /\ requests[k].jql = args.jql
        /\ requests[k].maxResults = args.max_results
        /\ requests[k].fields = Join(FieldsDefault(args.fields))

C10_Witness ==
    /\ Len(requests) >= 3
    /\ requests[3].nextPageToken = responses[2].nextPageToken
    /\ requests[3].nextPageToken # requests[2].nextPageToken
    /\ requests[3].nextPageToken # TokenNone

(***************************************************************************)
(* calculate_working_weeks                                                 *)
(* A date string "YYYY-MM-DD" is written by its three numbers <<y, m, d>>. *)
(* datetime.strptime raises ValueError unless they name a calendar date;   *)
(* a datetime is written by its proleptic Gregorian ordinal, as in         *)
(* datetime.toordinal(): 0001-01-01 is day 1, a Monday.                    *)
(***************************************************************************)
IsLeap(y) == (y % 4 = 0) /\ ((y % 100 # 0) \/ (y % 400 = 0))

DaysInMonth(y, m) ==
    IF m = 2 THEN (IF IsLeap(y) THEN 29 ELSE 28)
    ELSE IF m \in {4, 6, 9, 11} THEN 30 ELSE 31

DaysBeforeYear(y) ==
    LET p == y - 1 IN p * 365 + (p \div 4) - (p \div 100) + (p \div 400)

RECURSIVE DaysBeforeMonth(_, _)
DaysBeforeMonth(y, m) ==
    IF m <= 1 THEN 0 ELSE DaysBeforeMonth(y, m - 1) + DaysInMonth(y, m - 1)

ValidDate(date) ==
    /\ date[1] \in 1..9999
    /\ date[2] \in 1..12
    /\ date[3] \in 1..DaysInMonth(date[1], date[2])

\* datetime.strptime(date, "%Y-%m-%d"), given that the date is valid
Strptime(date) ==
    DaysBeforeYear(date[1]) + DaysBeforeMonth(date[1], date[2]) + date[3]

\* datetime.weekday(): Monday is 0, Sunday is 6
Weekday(ordinal) == (ordinal + 6) % 7

\* Mutant of IsWeekday: Saturday counts as a weekday.
IsWeekdayWithSaturday(ordinal) == Weekday(ordinal) <= 5

\* if current.weekday() < 5
IsWeekday(ordinal) == Weekday(ordinal) < 5

\* The while loop: current takes every day from start while current < end,
\* and weekdays counts those of them that are weekdays.
CountWeekdays(start, end) ==
    Cardinality({current \in start..(end - 1) : IsWeekday(current)})

\* The result; a real number is written as the fraction <<numerator, denominator>>.
calculate_working_weeks(start_date, end_date, pto_days) ==
    IF ~ValidDate(start_date) \/ ~ValidDate(end_date)
    THEN [raised |-> TRUE, total_days |-> 0, total_weeks |-> <<0, 1>>,
          working_days |-> 0, working_weeks |-> <<0, 1>>]
    ELSE LET start == Strptime(start_date)
             end == Strptime(end_date)
             total_days == end - start
             weekdays == CountWeekdays(start, end)
             working_days == weekdays - pto_days
         IN  [raised |-> FALSE,
              total_days |-> total_days,
              total_weeks |-> <<total_days, 7>>,
              working_days |-> working_days,
              working_weeks |-> <<working_days, 5>>]

(***************************************************************************)
(* WeeksSpec: calculate_working_weeks applied to drawn arguments.          *)
(***************************************************************************)
\* The dates drawn lie in the years 2024 .. 2024 + YearSpan.
YearSpan == 1
\* pto_days is drawn from -1 .. MaxPto.
MaxPto == 6

DateStrings ==
    {<<y, m, d>> : y \in 2024..(2024 + YearSpan), m \in {2, 3, 13},
                   d \in {1, 3, 10, 28, 29, 30}}

ApplyWeeks ==
    /\ pc = "weeks_call"
    /\ fnResult' = calculate_working_weeks(fnArgs.start_date, fnArgs.end_date,
                                           fnArgs.pto_days)
    /\ pc' = "weeks_done"
    /\ UNCHANGED <<fnArgs, exitCode, config>>
    /\ UNCHANGED searchVars
    /\ UNCHANGED mainVars

SearchIdle ==
    /\ spc = "idle"
    /\ svc = NoService
    /\ args = NoArgs
    /\ url_fields = <<>>
    /\ all_issues = <<>>
    /\ next_page_token = TokenNone
    /\ iteration = 0
    /\ requests = <<>>
    /\ responses = <<>>
    /\ progress = NoMsg
    /\ warned = FALSE
    /\ retval = <<>>

WeeksInit ==
    /\ pc = "weeks_call"
    /\ fnArgs \in [start_date : DateStrings, end_date : DateStrings,
                   pto_days : (-1)..MaxPto]
    /\ fnResult = <<>>
    /\ config = NoConfig
    /\ exitCode = NoExit
    /\ SearchIdle
    /\ MainIdle

WeeksNext == ApplyWeeks

WeeksSpec == WeeksInit /\ [][WeeksNext]_vars

(***************************************************************************)
(* Properties of calculate_working_weeks.  The days of a range and their   *)
(* weekdays are stated on calendar dates, without ordinals: dates compare  *)
(* year first, and the weekday of a date is Sakamoto's formula.            *)
(***************************************************************************)
DateLess(a, b) ==
    \/ a[1] < b[1]
    \/ a[1] = b[1] /\ a[2] < b[2]
    \/ a[1] = b[1] /\ a[2] = b[2] /\ a[3] < b[3]

DateLeq(a, b) == a = b \/ DateLess(a, b)

\* 0 is Sunday, 1 is Monday, ..., 6 is Saturday
SakamotoShift == <<0, 3, 2, 5, 0, 3, 5, 1, 4, 6, 2, 4>>
DayOfWeek(date) ==
    LET y == IF date[2] < 3 THEN date[1] - 1 ELSE date[1]
    IN  (y + (y \div 4) - (y \div 100) + (y \div 400)
           + SakamotoShift[date[2]] + date[3]) % 7

MondayToFriday(date) == DayOfWeek(date) \in 1..5

CalendarDates ==
    {date \in {<<y, m, d>> : y \in 2024..(2024 + YearSpan), m \in 1..12, d \in 1..31} :
        ValidDate(date)}

\* The days d with start <= d < end that fall on Monday..Friday.
WeekdaysInRange(start_date, end_date) ==
    {date \in CalendarDates :
        DateLeq(start_date, date) /\ DateLess(date, end_date) /\ MondayToFriday(date)}

WeeksDone == pc = "weeks_done"

\* C7: for valid start <= end the working days returned are the number of
\* days d, start <= d < end, on Monday..Friday, minus pto_days, not clamped
\* at zero; 2025-03-03 to 2025-03-10 without PTO gives 5.
C7_WorkingDays ==
    (/\ WeeksDone
     /\ ValidDate(fnArgs.start_date)
     /\ ValidDate(fnArgs.end_date)
     /\ DateLeq(fnArgs.start_date, fnArgs.end_date)) =>
        LET weekdays == Cardinality(WeekdaysInRange(fnArgs.start_date, fnArgs.end_date))
        IN  /\ ~fnResult.raised
            /\ fnResult.working_days = weekdays - fnArgs.pto_days
            /\ fnArgs.pto_days > weekdays => fnResult.working_days < 0
            /\ (/\ fnArgs.start_date = <<2025, 3, 3>>
                /\ fnArgs.end_date = <<2025, 3, 10>>
                /\ fnArgs.pto_days = 0) => fnResult.working_days = 5

C7_Witness ==
    /\ WeeksDone
    /\ fnArgs.start_date = <<2025, 3, 3>>
    /\ fnArgs.end_date = <<2025, 3, 10>>
    /\ fnArgs.pto_days = 6
    /\ ~fnResult.raised
    /\ fnResult.working_days = -1

\* C8: calculate_working_weeks fails when end < start, and when a date is
\* not a calendar date.
C8_BadRangeFails ==
    (/\ WeeksDone
     /\ \/ ~ValidDate(fnArgs.start_date)
        \/ ~ValidDate(fnArgs.end_date)
        \/ DateLess(fnArgs.end_date, fnArgs.start_date)) =>
        fnResult.raised

(***************************************************************************)
(* sum_story_points                                                        *)
(* A float is written in halves (2.5 is 5): the story points drawn are     *)
(* multiples of 0.5, which binary floating point adds without rounding.    *)
(***************************************************************************)
DigitChars == <<"0", "1", "2", "3", "4", "5", "6", "7", "8", "9">>
IsDigit(c) == InSeq(c, DigitChars)
DigitValue(c) == (CHOOSE k \in 1..10 : DigitChars[k] = c) - 1

RECURSIVE Decimal(_)
Decimal(chars) ==
    IF Len(chars) = 0 THEN 0
    ELSE 10 * Decimal(SubSeq(chars, 1, Len(chars) - 1)) + DigitValue(chars[Len(chars)])

RECURSIVE Pow10(_)
Pow10(n) == IF n = 0 THEN 1 ELSE 10 * Pow10(n - 1)

AllDigits(chars) == \A k \in 1..Len(chars) : IsDigit(chars[k])

RECURSIVE Strip(_)
Strip(chars) ==
    IF Len(chars) > 0 /\ Head(chars) = " " THEN Strip(Tail(chars))
    ELSE IF Len(chars) > 0 /\ chars[Len(chars)] = " "
         THEN Strip(SubSeq(chars, 1, Len(chars) - 1))
         ELSE chars

\* The text of a decimal numeral as a float: blanks stripped, an optional
\* sign, digits with an optional point; anything else is a ValueError.
\* (Exponents, "inf", "nan" and digit separators do not occur in the texts
\* drawn.)
ParseNumeral(text) ==
    LET t == Strip(text)
        signed == Len(t) > 0 /\ t[1] \in {"+", "-"}
        body == IF signed THEN Tail(t) ELSE t
        points == {k \in 1..Len(body) : body[k] = "."}
        dot == IF points = {} THEN Len(body) + 1
               ELSE CHOOSE k \in points : \A j \in points : k <= j
        whole == SubSeq(body, 1, dot - 1)
        frac == SubSeq(body, dot + 1, Len(body))
        ok == /\ AllDigits(whole)
              /\ AllDigits(frac)
              /\ Len(whole) + Len(frac) > 0
        halves == 2 * Decimal(whole) + ((2 * Decimal(frac)) \div Pow10(Len(frac)))
    IN  IF ~ok THEN [error |-> "ValueError", value |-> 0]
        ELSE [error |-> "", value |-> IF signed /\ t[1] = "-" THEN 0 - halves ELSE halves]

\* float(sp): a number converts, a string is parsed, any other object is a
\* TypeError.
PyFloat(sp) ==
    IF sp.kind \in {"int", "float", "str"} THEN ParseNumeral(sp.text)
    ELSE [error |-> "TypeError", value |-> 0]

\* issue["fields"].get(field_name): None for an absent key and for null
FieldGet(issue) ==
    IF issue.customfield_10014.kind = "absent" THEN SPNull
    ELSE issue.customfield_10014

IsNone(sp) == sp.kind = "null"

\* Mutant of Caught: only ValueError is caught.
CaughtValueErrorOnly(error) == error = "ValueError"

\* except (ValueError, TypeError): pass
Caught(error) == error \in {"ValueError", "TypeError"}

\* The for loop, one issue at a time; an uncaught error ends it.
RECURSIVE SumLoop(_, _)
SumLoop(issues, acc) ==
    IF Len(issues) = 0 \/ acc.raised THEN acc
    ELSE LET sp == FieldGet(Head(issues))
             f == PyFloat(sp)
         IN  SumLoop(Tail(issues),
                 IF IsNone(sp) THEN acc
                 ELSE IF f.error = ""
                      THEN [acc EXCEPT !.total = @ + f.value, !.count = @ + 1]
                      ELSE IF Caught(f.error) THEN acc
                           ELSE [acc EXCEPT !.raised = TRUE])

sum_story_points(issues) ==
    SumLoop(issues, [total |-> 0, count |-> 0, raised |-> FALSE])

(***************************************************************************)
(* SumSpec: sum_story_points applied to drawn issue lists.                 *)
(***************************************************************************)
\* The lists drawn hold up to MaxLen issues.
MaxLen == 5

StoryPointValues == {SPInt3, SPStr5, SPNull, SPBad, SPFloat25, SPAbsent, SPList}

IssueWith(sp) == [key |-> 0, issuetype |-> "Story", customfield_10014 |-> sp]

IssueLists ==
    UNION {[1..n -> {IssueWith(sp) : sp \in StoryPointValues}] : n \in 0..MaxLen}

ApplySum ==
    /\ pc = "sum_call"
    /\ fnResult' = sum_story_points(fnArgs)
    /\ pc' = "sum_done"
    /\ UNCHANGED <<fnArgs, exitCode, config>>
    /\ UNCHANGED searchVars
    /\ UNCHANGED mainVars

SumInit ==
    /\ pc = "sum_call"
    /\ fnArgs \in IssueLists
    /\ fnResult = <<>>
    /\ config = NoConfig
    /\ exitCode = NoExit
    /\ SearchIdle
    /\ MainIdle

SumNext == ApplySum

SumSpec == SumInit /\ [][SumNext]_vars

(***************************************************************************)
(* Properties of sum_story_points.  Which values are numbers, and which,   *)
(* is stated by a table.                                                   *)
(***************************************************************************)
IsNumber(sp) == sp \in {SPInt3, SPStr5, SPFloat25}

\* in halves
NumberOf(sp) ==
    CASE sp = SPInt3 -> 6
      [] sp = SPStr5 -> 10
      [] sp = SPFloat25 -> 5

RECURSIVE SumOfNumbers(_)
SumOfNumbers(issues) ==
    IF Len(issues) = 0 THEN 0
    ELSE (IF IsNumber(Head(issues).customfield_10014)
          THEN NumberOf(Head(issues).customfield_10014) ELSE 0)
         + SumOfNumbers(Tail(issues))

ExampleIssues ==
    <<IssueWith(SPInt3), IssueWith(SPStr5), IssueWith(SPNull), IssueWith(SPBad),
      IssueWith(SPFloat25)>>

\* C9: sum_story_points never raises; count is the number of issues whose
\* value is present and a number, total the sum of those values; the values
\* [3, "5", null, "bad", 2.5] give total 10.5 (21 halves) and count 3.
C9_SumAndCount ==
    pc = "sum_done" =>
        /\ ~fnResult.raised
        /\ fnResult.count =
               Cardinality({k \in 1..Len(fnArgs) : IsNumber(fnArgs[k].customfield_10014)})
        /\ fnResult.total = SumOfNumbers(fnArgs)
        /\ fnArgs = ExampleIssues => (fnResult.total = 21 /\ fnResult.count = 3)

C9_Witness ==
    /\ pc = "sum_done"
    /\ fnArgs = ExampleIssues
    /\ fnResult = [total |-> 21, count |-> 3, raised |-> FALSE]

(***************************************************************************)
(* main(): the header and check_auth, calculate_working_weeks, the three   *)
(* searches with their report sections, the story points, the overall      *)
(* statistics, the closing summary.  sys.exit(1) and an exception reaching *)
(* the handler at the bottom of the script end the process with code 1.    *)
(* A KeyboardInterrupt from outside the program is not modelled.           *)
(***************************************************************************)
\* count_by_type: the Counter of the issues' type names
count_by_type(issues) ==
    LET types == {issues[k].issuetype : k \in 1..Len(issues)}
    IN  [t \in types |-> Cardinality({k \in 1..Len(issues) : issues[k].issuetype = t})]

\* check_auth: not config.atlassian_user or not config.atlassian_token
AuthMissing(cfg) == cfg.atlassian_user = "" \/ cfg.atlassian_token = ""

\* A section of the report: its name, the total it prints, its breakdown.
Section(name, total, detail) == [name |-> name, total |-> total, detail |-> detail]

\* What the services of main's three searches may hold: few issues, or
\* more than one page of the default page size.  (The iteration limit is not
\* reached in MainSpec; Spec covers it.)
MainTotals == (0 .. Extra) \cup {DefaultMaxResults + 1}
MainServices == [total : MainTotals, sendsTotal : BOOLEAN]

MainStart ==
    /\ pc = "main"
    /\ IF AuthMissing(config)
       THEN /\ pc' = "exit"
            /\ exitCode' = 1
       ELSE /\ pc' = "calc"
            /\ UNCHANGED exitCode
    /\ UNCHANGED config
    /\ UNCHANGED searchVars
    /\ UNCHANGED mainVars
    /\ UNCHANGED fnVars

MainCalcWeeks ==
    /\ pc = "calc"
    /\ LET r == calculate_working_weeks(config.start_date, config.end_date,
                                        config.pto_days)
       IN  /\ weeks' = r
           /\ IF r.raised
              THEN /\ pc' = "exit"
                   /\ exitCode' = 1
              ELSE /\ pc' = "fetch_created"
                   /\ UNCHANGED exitCode
    /\ UNCHANGED <<config, created_issues, resolved_issues, bug_issues, report>>
    /\ UNCHANGED searchVars
    /\ UNCHANGED fnVars

\* The arguments of the three calls of jira_search in main.
SearchArgs(at) ==
    CASE at = "fetch_created" ->
            [jql |-> JqlCreated, fields |-> FieldsNone, max_results |-> DefaultMaxResults]
      [] at = "fetch_resolved" ->
            [jql |-> JqlResolved, fields |-> FieldsOf(ResolvedFields),
             max_results |-> DefaultMaxResults]
      [] at = "fetch_bugs" ->
            [jql |-> JqlBugs, fields |-> FieldsNone, max_results |-> DefaultMaxResults]

\* Entering jira_search: lines 137-148.
CallSearch ==
    /\ pc \in {"fetch_created", "fetch_resolved", "fetch_bugs"}
    /\ spc = "idle"
    /\ svc' \in MainServices
    /\ args' = SearchArgs(pc)
    /\ url_fields' = FieldsDefault(SearchArgs(pc).fields)
    /\ all_issues' = <<>>
    /\ next_page_token' = TokenNone
    /\ iteration' = 0
    /\ requests' = <<>>
    /\ responses' = <<>>
    /\ spc' = "loop"
    /\ UNCHANGED <<pc, config, progress, warned, retval, exitCode>>
    /\ UNCHANGED mainVars
    /\ UNCHANGED fnVars

\* jira_search has returned: its frame is gone.
LeaveSearch ==
    /\ spc' = "idle"
    /\ svc' = NoService
    /\ args' = NoArgs
    /\ url_fields' = <<>>
    /\ all_issues' = <<>>
    /\ next_page_token' = TokenNone
    /\ iteration' = 0
    /\ requests' = <<>>
    /\ responses' = <<>>
    /\ progress' = NoMsg
    /\ warned' = FALSE
    /\ retval' = <<>>

PrintTicketsCreated ==
    /\ pc = "fetch_created"
    /\ spc = "returned"
    /\ created_issues' = retval
    /\ report' = Append(report, Section("created", Len(retval), count_by_type(retval)))
    /\ pc' = "fetch_resolved"
    /\ LeaveSearch
    /\ UNCHANGED <<config, exitCode, weeks, resolved_issues, bug_issues>>
    /\ UNCHANGED fnVars

PrintTicketsResolved ==
    /\ pc = "fetch_resolved"
    /\ spc = "returned"
    /\ resolved_issues' = retval
    /\ report' = Append(report, Section("resolved", Len(retval), count_by_type(retval)))
    /\ pc' = "fetch_bugs"
    /\ LeaveSearch
    /\ UNCHANGED <<config, exitCode, weeks, created_issues, bug_issues>>
    /\ UNCHANGED fnVars

PrintBugsResolved ==
    /\ pc = "fetch_bugs"
    /\ spc = "returned"
    /\ bug_issues' = retval
    /\ report' = Append(report, Section("bugs", Len(retval), <<>>))
    /\ pc' = "story_points"
    /\ LeaveSearch
    /\ UNCHANGED <<config, exitCode, weeks, created_issues, resolved_issues>>
    /\ UNCHANGED fnVars

\* print_story_points, print_overall_statistics (the rates only when
\* working_weeks > 0, each a fraction count / working_weeks), print_summary.
PrintStoryPoints ==
    /\ pc = "story_points"
    /\ LET r == sum_story_points(resolved_issues)
           ww == weeks.working_days
           rates == IF ww > 0
                    THEN <<Section("overall", 0,
                              [created |-> <<5 * Len(created_issues), ww>>,
                               resolved |-> <<5 * Len(resolved_issues), ww>>,
                               bugs |-> <<5 * Len(bug_issues), ww>>,
                               story_points |-> <<5 * r.total, 2 * ww>>])>>
                    ELSE <<Section("overall", 0, <<>>)>>
       IN  IF r.raised
           THEN /\ pc' = "exit"
                /\ exitCode' = 1
                /\ UNCHANGED report
           ELSE /\ report' = (Append(report,
                                Section("story_points", r.total,
                                        <<r.count, Len(resolved_issues)>>))
                              \o rates) \o <<Section("summary", 0, <<>>)>>
                /\ pc' = "done"
                /\ exitCode' = 0
    /\ UNCHANGED <<config, weeks, created_issues, resolved_issues, bug_issues>>
    /\ UNCHANGED searchVars
    /\ UNCHANGED fnVars

(***************************************************************************)
(* MainSpec                                                                *)
(***************************************************************************)
MainDates == {<<2025, 2, 28>>, <<2026, 2, 2>>, <<2025, 2, 30>>}

Configs ==
    [atlassian_user : {"", "me@example.com"},
     atlassian_token : {"", "token"},
     start_date : MainDates,
     end_date : MainDates,
     pto_days : {0, 300}]

MainInit ==
    /\ pc = "main"
    /\ config \in Configs
    /\ exitCode = NoExit
    /\ SearchIdle
    /\ MainIdle
    /\ FnIdle

MainNext ==
    \/ MainStart
    \/ MainCalcWeeks
    \/ CallSearch
    \/ Iterate
    \/ Finish
    \/ PrintTicketsCreated
    \/ PrintTicketsResolved
    \/ PrintBugsResolved
    \/ PrintStoryPoints

MainSpec == MainInit /\ [][MainNext]_vars

(***************************************************************************)
(* Properties of main().                                                   *)
(***************************************************************************)
Failed == Len(responses) > 0 /\ LastResponse.status # HTTP_OK

\* The sections a run has printed when the search for `jql` is under way.
SectionsBefore(jql) ==
    CASE jql = JqlCreated -> 0
      [] jql = JqlResolved -> 1
      [] jql = JqlBugs -> 2

\* The list main keeps of the search for `jql`.
ListOf(jql) ==
    CASE jql = JqlCreated -> created_issues
      [] jql = JqlResolved -> resolved_issues
      [] jql = JqlBugs -> bug_issues

\* C6: a non-200 response is the last request of the run: the process exits
\* with code 1, the failing search returns nothing to main, no section is
\* printed for it or after it, and nothing happens after the exit.
C6_FailureAborts ==
    /\ [](Failed =>
            /\ exitCode = 1
            /\ pc = "exit"
            /\ spc = "exited"
            /\ ListOf(args.jql) = <<>>
            /\ Len(report) = SectionsBefore(args.jql))
    /\ [][exitCode = 1 => UNCHANGED vars]_vars

C6_Witness ==
    /\ Failed
    /\ args.jql = JqlResolved
    /\ Len(responses) = 2
    /\ Len(all_issues) = DefaultMaxResults
    /\ resolved_issues = <<>>
    /\ Len(created_issues) > 0
    /\ Len(report) = 1
    /\ exitCode = 1

====
